---- MODULE Spec2Model ----
(***************************************************************************)
(* caffe2/operators/jsd_op.cc: the CPU operators BernoulliJSD and           *)
(* BernoulliJSDGradient, their numerical helpers logit and entropy, and    *)
(* the gradient maker GetBernoulliJSDGradient.                             *)
(*                                                                         *)
(* Numbers.  The source computes in IEEE single precision with double      *)
(* intermediates.  The model keeps the structure of that arithmetic in a   *)
(* reduced binary floating-point format: a float is an integer count of    *)
(* units of 2^-FracBits with at most MantBits significant bits, every      *)
(* float operation rounds to nearest (ties to even), and a double is a     *)
(* count of the finer unit 2^-(FracBits+DblBits).  kLOG_THRESHOLD keeps    *)
(* the two properties 1e-20f has in single precision: it is a              *)
(* representable positive float with representable positive floats below  *)
(* it, and it is smaller than half the spacing of the floats just below    *)
(* 1, so that the float subtraction 1 - kLOG_THRESHOLD() rounds to 1.      *)
(* Infinity and NaN are carried as tagged values where the code can        *)
(* produce them (logit and the gradient).                                  *)
(***************************************************************************)
EXTENDS Integers, Sequences, FiniteSets, TLC

VARIABLES
    X, T, go,                       \* input tensors of the workspace
    L0,                             \* output blob L as it was before the call
    fpc, fi, Lsize, Ldata, lWrites, fOrder,
                                    \* BernoulliJSDOp::RunOnDevice
    gpc, gidx, giSize, giData, gWrites, gOrder, gReads, tSeen, goSeen,
                                    \* BernoulliJSDGradientOp::RunOnDevice
    def, g_output, g_input, gradDefs, wpc,
                                    \* GetBernoulliJSDGradient
    np, nq, npc, nJ, nJrev, nLogArgs, nLogit
                                    \* one evaluation of the scalar helpers

inVars == <<X, T, go, L0>>
fVars  == <<fpc, fi, Lsize, Ldata, lWrites, fOrder>>
gVars  == <<gpc, gidx, giSize, giData, gWrites, gOrder, gReads, tSeen,
           goSeen>>
wVars  == <<def, g_output, g_input, gradDefs, wpc>>
nVars  == <<np, nq, npc, nJ, nJrev, nLogArgs, nLogit>>
vars   == <<inVars, fVars, gVars, wVars, nVars>>

----------------------------------------------------------------------------
(* Bounds of the model. *)

\* Longest tensor the workspace holds.
MaxLen == 2

----------------------------------------------------------------------------
(* The number format. *)

\* Significant bits of a float (24 in the source's single precision).
MantBits == 4
\* A float is a multiple of 2^-FracBits.
FracBits == 8
\* A double is a multiple of 2^-(FracBits + DblBits).
DblBits == 8

One  == 2^FracBits
DOne == 2^(FracBits + DblBits)

Abs(v) == IF v < 0 THEN -v ELSE v
Max(a, b) == IF a >= b THEN a ELSE b
Min(a, b) == IF a <= b THEN a ELSE b

RECURSIVE ExcessBits(_)
\* How many low bits a magnitude has beyond MantBits significant ones.
ExcessBits(a) == IF a < 2^MantBits THEN 0 ELSE 1 + ExcessBits(a \div 2)

\* Conversion to float of a value given in units of 2^-(FracBits+s):
\* round to nearest, ties to even, to MantBits significant bits.
ToFloat(v, s) ==
    LET a    == Abs(v)
        sh   == Max(s, ExcessBits(a))
        q    == a \div 2^sh
        r    == a % 2^sh
        half == 2^sh \div 2
        up   == sh > 0 /\ (r > half \/ (r = half /\ q % 2 = 1))
        m    == IF up THEN q + 1 ELSE q
        res  == m * 2^(sh - s)
    IN  IF v < 0 THEN -res ELSE res

\* The result of a float operation whose exact value is v float units.
Round(v) == ToFloat(v, 0)

FAdd(a, b) == Round(a + b)
FSub(a, b) == Round(a - b)

\* The double 1. / x of a float x > 0, in double units (nearest, ties to even).
DRecip(x) ==
    LET n == 2^(2 * FracBits + DblBits)
        q == n \div x
        r == n % x
    IN  IF 2 * r > x \/ (2 * r = x /\ q % 2 = 1) THEN q + 1 ELSE q

\* The floats of the format between lo and hi.
FloatsIn(lo, hi) == {v \in lo..hi : Round(v) = v}

\* Tagged values of the gradient path, where the code can produce
\* infinities and NaN.
Fin(v) == <<"fin", v>>
PInf   == <<"inf", 1>>
NInf   == <<"inf", -1>>
NaN    == <<"nan", 0>>
IsFinite(e) == e[1] = "fin"

----------------------------------------------------------------------------
(* The numerical helpers (anonymous namespace of jsd_op.cc). *)

\* kLOG_THRESHOLD(): 1e-20f in the source; here two units, the smallest
\* float having a positive float below it.
kLOG_THRESHOLD == 2

\* The C library's log on the doubles the helpers can pass to it: argument
\* and result in double units, the result rounded to nearest.
LogTable ==
    256 :> -363409 @@ 512 :> -317983 @@ 768 :> -291410 @@ 1024 :> -272557 @@
    1280 :> -257933 @@ 1536 :> -245984 @@ 1792 :> -235882 @@ 2048 :> -227130 @@
    2304 :> -219411 @@ 2560 :> -212507 @@ 2816 :> -206260 @@ 3072 :> -200558 @@
    3328 :> -195312 @@ 3584 :> -190455 @@ 3840 :> -185934 @@ 4096 :> -181704 @@
    4369 :> -177476 @@ 4608 :> -173985 @@ 5120 :> -167080 @@ 5632 :> -160834 @@
    6144 :> -155132 @@ 6656 :> -149886 @@ 7168 :> -145029 @@ 7680 :> -140508 @@
    8192 :> -136278 @@ 9216 :> -128559 @@ 9362 :> -127529 @@ 10240 :> -121654 @@
    11264 :> -115408 @@ 12288 :> -109706 @@ 13312 :> -104460 @@ 14336 :> -99603 @@
    15124 :> -96097 @@ 15360 :> -95082 @@ 16384 :> -90852 @@ 18432 :> -83133 @@
    20480 :> -76228 @@ 21845 :> -72000 @@ 22528 :> -69982 @@ 24576 :> -64280 @@
    26624 :> -59034 @@ 28672 :> -54177 @@ 29789 :> -51673 @@ 30720 :> -49656 @@
    32768 :> -45426 @@ 36864 :> -37707 @@ 39322 :> -33477 @@ 40960 :> -30802 @@
    45056 :> -24556 @@ 49152 :> -18854 @@ 50972 :> -16471 @@ 53248 :> -13608 @@
    57344 :> -8751 @@ 61440 :> -4230 @@ 65536 :> 0 @@ 74274 :> 8203 @@
    84261 :> 16470 @@ 95783 :> 24870 @@ 109227 :> 33478 @@ 125114 :> 42377 @@
    144179 :> 51672 @@ 167481 :> 61490 @@ 196608 :> 71999 @@ 214084 :> 77579 @@
    234057 :> 83425 @@ 257103 :> 89580 @@ 283989 :> 96098 @@ 315764 :> 103049 @@
    353894 :> 110520 @@ 400498 :> 118627 @@ 458752 :> 127527 @@ 493705 :> 132339 @@
    533650 :> 137438 @@ 579742 :> 142867 @@ 633515 :> 148680 @@ 697065 :> 154945 @@
    773325 :> 161749 @@ 866532 :> 169207 @@ 983040 :> 177475 @@ 1052945 :> 181977 @@
    1132837 :> 186770 @@ 1225019 :> 191897 @@ 1332565 :> 197412 @@ 1459665 :> 203382 @@
    1612186 :> 209895 @@ 1798599 :> 217066 @@ 2031616 :> 225050 @@ 2331209 :> 234065 @@
    2730667 :> 244430 @@ 3289907 :> 256640 @@ 4128768 :> 271524 @@ 5526869 :> 290638 @@
    8323072 :> 317469

Log(a) == LogTable[a]

\* A float as a double (exact).
ToDouble(p) == p * 2^DblBits

\* logit, line 30: the clamped argument.  The upper limit is the float
\* difference 1 - kLOG_THRESHOLD().
LogitClamp(p) == Min(Max(p, kLOG_THRESHOLD), FSub(One, kLOG_THRESHOLD))

\* logit, line 31: the double 1. / x - 1. handed to log.
LogitArg(p) == DRecip(LogitClamp(p)) - DOne

\* logit, lines 27-32.  log(0) is -infinity and log of a negative is NaN.
logit(p) ==
    LET a == LogitArg(p)
    IN  IF a = 0 THEN PInf
        ELSE IF a < 0 THEN NaN
        ELSE Fin(ToFloat(-Log(a), DblBits))

\* entropy, line 35: the test that returns 0.
EntropyIsZero(p) == p < kLOG_THRESHOLD \/ FSub(One, p) < kLOG_THRESHOLD

\* entropy, lines 38-39: the doubles handed to log.
EntropyLogArgs(p) ==
    IF EntropyIsZero(p) THEN {}
    ELSE {ToDouble(p), ToDouble(FSub(One, p))}

\* entropy, lines 34-41: the double -p*log(p) - q*log(q), returned as float.
entropy(p) ==
    IF EntropyIsZero(p) THEN 0
    ELSE LET q == FSub(One, p)
         IN  ToFloat(-p * Log(ToDouble(p)) - q * Log(ToDouble(q)),
                     FracBits + DblBits)

\* Lines 58 and 80: p_avg = (p_mdl + p_emp) / 2., a float sum halved in
\* double, as the float the helpers receive.
PAvg(p_mdl, p_emp) == ToFloat(FAdd(p_mdl, p_emp), 1)

\* Two faulty variants of the loss: the halving of the entropy sum left
\* out, and the entropy of p_emp replaced by that of p_mdl.
JSDNoHalf(p_mdl, p_emp) ==
    ToFloat(entropy(PAvg(p_mdl, p_emp))
              - FAdd(entropy(p_mdl), entropy(p_emp)), 0)
JSDOneSided(p_mdl, p_emp) ==
    ToFloat(2 * entropy(PAvg(p_mdl, p_emp))
              - FAdd(entropy(p_mdl), entropy(p_mdl)), 1)

\* Lines 56-60: the loss of one element, stored as float.
JSD(p_mdl, p_emp) ==
    ToFloat(2 * entropy(PAvg(p_mdl, p_emp))
              - FAdd(entropy(p_mdl), entropy(p_emp)), 1)

\* Float subtraction of two helper results.
ExtFSub(a, b) ==
    IF a[1] = "nan" \/ b[1] = "nan" THEN NaN
    ELSE IF a[1] = "inf" /\ b[1] = "inf"
         THEN (IF a[2] = b[2] THEN NaN ELSE a)
    ELSE IF a[1] = "inf" THEN a
    ELSE IF b[1] = "inf" THEN <<"inf", -b[2]>>
    ELSE Fin(FSub(a[2], b[2]))

\* The float g * (d / 2.) for a finite float g.
ExtHalfTimes(g, d) ==
    IF d[1] = "nan" THEN NaN
    ELSE IF d[1] = "inf"
         THEN (IF g = 0 THEN NaN
               ELSE IF g > 0 THEN d ELSE <<"inf", -d[2]>>)
    ELSE Fin(ToFloat(g * d[2], FracBits + 1))

\* A faulty variant of the gradient: go_data[i] left out.
GradElemNoUpstream(g, p_mdl, p_emp) ==
    ExtHalfTimes(One, ExtFSub(logit(p_mdl), logit(PAvg(p_mdl, p_emp))))

\* Lines 78-82: the gradient of one element, stored as float.
GradElem(g, p_mdl, p_emp) ==
    ExtHalfTimes(g, ExtFSub(logit(p_mdl), logit(PAvg(p_mdl, p_emp))))

----------------------------------------------------------------------------
(* The workspace the operators run in. *)

\* Element values of the prediction and target tensors: 0 (below the
\* threshold), 3/8 and 1.
ArrProbs == {0, 3 * 2^(FracBits - 3), One}
\* Element values of the upstream gradient: -1 and 1/2.
GoVals == {-One, One \div 2}
\* What a read past the end of a tensor may return.
GarbageVals == {0, One \div 2}

Tensors(S) == UNION {[1..n -> S] : n \in 0..MaxLen}

\* The empty tensor, and a tensor's contents after a resize: no element
\* has a defined value until it is written.
Empty == <<>>

\* f with index i set to v.
Store(f, i, v) == [j \in DOMAIN f \cup {i} |-> IF j = i THEN v ELSE f[j]]
\* A write counter with index i counted once more.
Count(w, i) ==
    [j \in DOMAIN w \cup {i} |->
        IF j = i THEN (IF i \in DOMAIN w THEN w[i] + 1 ELSE 1) ELSE w[j]]

InitTensors ==
    /\ X \in Tensors(ArrProbs)
    /\ T \in Tensors(ArrProbs)
    /\ go \in Tensors(GoVals)
    /\ L0 \in {Empty, <<One>>}

InitForward ==
    /\ fpc = "idle" /\ fi = 0
    /\ Lsize = Len(L0) /\ Ldata = L0 /\ lWrites = Empty /\ fOrder = Empty

InitGradient ==
    /\ gpc = "idle" /\ gidx = 0
    /\ giSize = 0 /\ giData = Empty /\ gWrites = Empty /\ gOrder = Empty
    /\ gReads = {} /\ tSeen = Empty /\ goSeen = Empty

\* One operator runs at a time.
ForwardRunning  == fpc \in {"enforce", "resize", "loop"}
GradientRunning == gpc \in {"resize", "loop"}

----------------------------------------------------------------------------
(* BernoulliJSDOp<float, CPUContext>::RunOnDevice, lines 45-63. *)

\* Lines 46-49: the blobs are fetched and N = X.size().
BernoulliJSD_Call ==
    /\ fpc = "idle" /\ ~GradientRunning
    /\ fpc' = "enforce"
    /\ UNCHANGED <<fi, Lsize, Ldata, lWrites, fOrder,
                   inVars, gVars, wVars, nVars>>

\* A faulty variant of the condition: a longer T is let through.
EnforceEqAtLeast(tsize, n) == tsize >= n

\* Line 50: the condition of CAFFE_ENFORCE_EQ(T.size(), N).  The lengths
\* of the model are far below 2^31, where int N = X.size() is exact.
EnforceEq(tsize, n) == tsize = n

\* A faulty variant of the failing enforcement: the check placed after
\* L->ResizeLike(X).
BernoulliJSD_EnforceThrowsLate ==
    /\ fpc = "enforce" /\ ~EnforceEq(Len(T), Len(X))
    /\ fpc' = "aborted"
    /\ Lsize' = Len(X) /\ Ldata' = Empty
    /\ UNCHANGED <<fi, lWrites, fOrder, inVars, gVars, wVars, nVars>>

\* Line 50, the condition fails: the enforcement throws out of the call,
\* before line 51 has touched L.
BernoulliJSD_EnforceThrows ==
    /\ fpc = "enforce" /\ ~EnforceEq(Len(T), Len(X))
    /\ fpc' = "aborted"
    /\ UNCHANGED <<fi, Lsize, Ldata, lWrites, fOrder,
                   inVars, gVars, wVars, nVars>>

\* Line 50, the condition holds.
BernoulliJSD_EnforcePasses ==
    /\ fpc = "enforce" /\ EnforceEq(Len(T), Len(X))
    /\ fpc' = "resize"
    /\ UNCHANGED <<fi, Lsize, Ldata, lWrites, fOrder,
                   inVars, gVars, wVars, nVars>>

\* Lines 51-55: L->ResizeLike(X), the data pointers, i = 0.
BernoulliJSD_Resize ==
    /\ fpc = "resize"
    /\ Lsize' = Len(X) /\ Ldata' = Empty /\ lWrites' = Empty
    /\ fi' = 0 /\ fOrder' = Empty
    /\ fpc' = "loop"
    /\ UNCHANGED <<inVars, gVars, wVars, nVars>>

\* A faulty variant of the loop body: it reads the output element before
\* its own when that one is written.
ForwardBodyCarry(l, i) ==
    Store(l, i, IF i - 1 \in DOMAIN l THEN l[i - 1] ELSE JSD(X[i], T[i]))

\* Lines 56-60, the loop body for the (1-based) index i, on the output l.
ForwardBody(l, i) == Store(l, i, JSD(X[i], T[i]))

ForwardIter(i) ==
    /\ Ldata' = ForwardBody(Ldata, i)
    /\ lWrites' = Count(lWrites, i)
    /\ fOrder' = Append(fOrder, i)

\* Lines 55-61: one iteration of for (int i = 0; i < N; i++).
BernoulliJSD_LoopStep ==
    /\ fpc = "loop" /\ fi < Len(X)
    /\ ForwardIter(fi + 1)
    /\ fi' = fi + 1
    /\ UNCHANGED <<fpc, Lsize, inVars, gVars, wVars, nVars>>

\* Lines 55 and 62: the loop ends and the call returns true.
BernoulliJSD_Return ==
    /\ fpc = "loop" /\ fi = Len(X)
    /\ fpc' = "done"
    /\ UNCHANGED <<fi, Lsize, Ldata, lWrites, fOrder,
                   inVars, gVars, wVars, nVars>>

----------------------------------------------------------------------------
(* BernoulliJSDGradientOp<float, CPUContext>::RunOnDevice, lines 65-85. *)

\* Lines 67-71: the blobs are fetched and N = X.size().
BernoulliJSDGradient_Call ==
    /\ gpc = "idle" /\ ~ForwardRunning
    /\ gpc' = "resize"
    /\ UNCHANGED <<gidx, giSize, giData, gWrites, gOrder, gReads, tSeen,
                   goSeen,
                   inVars, fVars, wVars, nVars>>

\* Lines 72-77: gi->ResizeLike(X), the data pointers, i = 0.
BernoulliJSDGradient_Resize ==
    /\ gpc = "resize"
    /\ giSize' = Len(X) /\ giData' = Empty /\ gWrites' = Empty
    /\ gidx' = 0 /\ gOrder' = Empty
    /\ gpc' = "loop"
    /\ UNCHANGED <<gReads, tSeen, goSeen, inVars, fVars, wVars, nVars>>

\* A read of element i of tensor a through its data pointer: the element,
\* or, past the end, whatever the memory there holds.
ReadAt(a, i) == IF i <= Len(a) THEN {a[i]} ELSE GarbageVals

\* Lines 78-82, the loop body for the (1-based) index i, on the output g,
\* with gv and tv the values read from go_data[i] and t_data[i].
GradientBody(g, i, gv, tv) == Store(g, i, GradElem(gv, X[i], tv))

GradientIter(i) ==
    \E tv \in ReadAt(T, i), gv \in ReadAt(go, i) :
        /\ giData' = GradientBody(giData, i, gv, tv)
        /\ gWrites' = Count(gWrites, i)
        /\ gOrder' = Append(gOrder, i)
        /\ gReads' = gReads \cup {<<"X", i>>, <<"T", i>>, <<"go", i>>}
        /\ tSeen' = Store(tSeen, i, tv)
        /\ goSeen' = Store(goSeen, i, gv)

\* Lines 77-83: one iteration of for (int i = 0; i < N; i++).
BernoulliJSDGradient_LoopStep ==
    /\ gpc = "loop" /\ gidx < Len(X)
    /\ GradientIter(gidx + 1)
    /\ gidx' = gidx + 1
    /\ UNCHANGED <<gpc, giSize, inVars, fVars, wVars, nVars>>

\* Lines 79 and 82: a read past the end of T or go may also fault, which
\* ends the process inside the call.
GradientFault(i) ==
    /\ i > Len(T) \/ i > Len(go)
    /\ gpc' = "crashed"
    /\ gReads' = gReads \cup
          (IF i > Len(T) THEN {<<"X", i>>, <<"T", i>>}
           ELSE {<<"X", i>>, <<"T", i>>, <<"go", i>>})

BernoulliJSDGradient_LoopFault ==
    /\ gpc = "loop" /\ gidx < Len(X)
    /\ GradientFault(gidx + 1)
    /\ UNCHANGED <<gidx, giSize, giData, gWrites, gOrder, tSeen, goSeen,
                   inVars, fVars, wVars, nVars>>

\* Lines 77 and 84: the loop ends and the call returns true.
BernoulliJSDGradient_Return ==
    /\ gpc = "loop" /\ gidx = Len(X)
    /\ gpc' = "done"
    /\ UNCHANGED <<gidx, giSize, giData, gWrites, gOrder, gReads, tSeen,
                   goSeen,
                   inVars, fVars, wVars, nVars>>

----------------------------------------------------------------------------
(* The two loops with their iterations taken in any order, as parallel     *)
(* workers that each take an index not yet done would run them.            *)

ForwardAnyStep ==
    /\ fpc = "loop"
    /\ \E i \in (1..Len(X)) \ DOMAIN Ldata : ForwardIter(i)
    /\ UNCHANGED <<fpc, fi, Lsize, inVars, gVars, wVars, nVars>>

ForwardAnyReturn ==
    /\ fpc = "loop" /\ DOMAIN Ldata = 1..Len(X)
    /\ fpc' = "done"
    /\ UNCHANGED <<fi, Lsize, Ldata, lWrites, fOrder,
                   inVars, gVars, wVars, nVars>>

GradientAnyStep ==
    /\ gpc = "loop"
    /\ \E i \in (1..Len(X)) \ DOMAIN giData : GradientIter(i)
    /\ UNCHANGED <<gpc, gidx, giSize, inVars, fVars, wVars, nVars>>

GradientAnyFault ==
    /\ gpc = "loop"
    /\ \E i \in (1..Len(X)) \ DOMAIN giData : GradientFault(i)
    /\ UNCHANGED <<gidx, giSize, giData, gWrites, gOrder, tSeen, goSeen,
                   inVars, fVars, wVars, nVars>>

GradientAnyReturn ==
    /\ gpc = "loop" /\ DOMAIN giData = 1..Len(X)
    /\ gpc' = "done"
    /\ UNCHANGED <<gidx, giSize, giData, gWrites, gOrder, gReads, tSeen,
                   goSeen,
                   inVars, fVars, wVars, nVars>>

\* The sequential loops of lines 55-61 and 77-83 run for k iterations from
\* an output with no element written, the gradient loop on the values tv
\* and gv its reads of t_data and go_data return.
RECURSIVE ForwardLoop(_)
ForwardLoop(k) ==
    IF k = 0 THEN Empty ELSE ForwardBody(ForwardLoop(k - 1), k)

RECURSIVE GradientLoop(_, _, _)
GradientLoop(k, gv, tv) ==
    IF k = 0 THEN Empty
    ELSE GradientBody(GradientLoop(k - 1, gv, tv), k, gv[k], tv[k])

----------------------------------------------------------------------------
(* GetBernoulliJSDGradient and the operator schemas, lines 86-112. *)

\* Lines 90-92 and 100: NumInputs and NumOutputs of the two schemas.
Schema ==
    [BernoulliJSD         |-> [NumInputs |-> 2, NumOutputs |-> 1],
     BernoulliJSDGradient |-> [NumInputs |-> 3, NumOutputs |-> 1]]

BlobNames == {"X", "T", "L", "P"}
Blob(n) == <<"blob", n>>
\* GradientName: the blob a gradient is written to.
GradientName(b) == <<"grad", b[2]>>
\* An input that has been given no gradient.
NoGradient == <<"none", "">>

\* GradientMakerBase::I and ::GO (0-based in the source, 1-based here).
I(i) == def.input[i]
GO(i) == g_output[i]

\* Line 108: the inputs of the gradient operator.
GradientInputs == <<GO(1), I(1), I(2)>>
\* A faulty variant of the outputs: GI called for the target input too.
GradientOutputsBoth == <<1, 2>>

\* Line 109: the inputs GI is called for, in order.
GradientOutputs == <<1>>

InitWiring ==
    /\ def \in [type : {"BernoulliJSD"},
                input : [1..2 -> {Blob(n) : n \in BlobNames}],
                output : [1..1 -> {Blob(n) : n \in BlobNames}]]
    /\ g_output \in {<<GradientName(def.output[1])>>,
                     <<<<"autogen", def.output[1][2]>>>>}
    /\ g_input = <<NoGradient, NoGradient>>
    /\ gradDefs = <<>>
    /\ wpc = "idle"

\* Lines 104-110.  GI(i) records GradientName(I(i)) as the gradient of
\* input i and returns it; SingleGradientDef returns one operator.
GetGradientDefs ==
    /\ wpc = "idle"
    /\ g_input' = [i \in 1..Len(g_input) |->
                     IF \E k \in 1..Len(GradientOutputs) :
                            GradientOutputs[k] = i
                     THEN GradientName(I(i)) ELSE g_input[i]]
    /\ gradDefs' = <<[type |-> "BernoulliJSDGradient",
                      input |-> GradientInputs,
                      output |-> [k \in 1..Len(GradientOutputs) |->
                                    GradientName(I(GradientOutputs[k]))]]>>
    /\ wpc' = "made"
    /\ UNCHANGED <<def, g_output, inVars, fVars, gVars, nVars>>

----------------------------------------------------------------------------
(* One evaluation of the scalar helpers on a pair of floats. *)

\* The floats of [0, 1], and some outside it.
NumInputs == FloatsIn(0, One) \cup {-One, -1, One + One \div 2, 2 * One}

InitNum ==
    /\ np \in NumInputs /\ nq \in NumInputs
    /\ npc = "in"
    /\ nJ = 0 /\ nJrev = 0 /\ nLogArgs = {} /\ nLogit = Fin(0)

Evaluate ==
    /\ npc = "in"
    /\ nJ' = JSD(np, nq)
    /\ nJrev' = JSD(nq, np)
    /\ nLogArgs' = EntropyLogArgs(np) \cup {LogitArg(np)}
    /\ nLogit' = logit(np)
    /\ npc' = "out"
    /\ UNCHANGED <<np, nq, inVars, fVars, gVars, wVars>>

----------------------------------------------------------------------------
(* The specifications. *)

NoTensors == X = Empty /\ T = Empty /\ go = Empty /\ L0 = Empty
NoWiring ==
    /\ def = [type |-> "BernoulliJSD",
              input |-> <<Blob("X"), Blob("T")>>, output |-> <<Blob("L")>>]
    /\ g_output = <<GradientName(Blob("L"))>>
    /\ g_input = <<NoGradient, NoGradient>>
    /\ gradDefs = <<>>
    /\ wpc = "idle"
NoNum ==
    /\ np = 0 /\ nq = 0 /\ npc = "off"
    /\ nJ = 0 /\ nJrev = 0 /\ nLogArgs = {} /\ nLogit = Fin(0)

\* The two operators as the source runs them.
Init == InitTensors /\ InitForward /\ InitGradient /\ NoWiring /\ NoNum
Next ==
    \/ BernoulliJSD_Call
    \/ BernoulliJSD_EnforceThrows
    \/ BernoulliJSD_EnforcePasses
    \/ BernoulliJSD_Resize
    \/ BernoulliJSD_LoopStep
    \/ BernoulliJSD_Return
    \/ BernoulliJSDGradient_Call
    \/ BernoulliJSDGradient_Resize
    \/ BernoulliJSDGradient_LoopStep
    \/ BernoulliJSDGradient_LoopFault
    \/ BernoulliJSDGradient_Return
Spec == Init /\ [][Next]_vars

\* The two operators with their loop iterations in any order, on the
\* tensors with targets 3/8 and upstream gradients -1, and an output blob L
\* that is empty before the call.
InitAnyOrder ==
    /\ X \in Tensors(ArrProbs)
    /\ T \in Tensors(ArrProbs \ {0, One})
    /\ go \in Tensors({-One})
    /\ L0 = Empty
    /\ InitForward /\ InitGradient /\ NoWiring /\ NoNum
NextAnyOrder ==
    \/ BernoulliJSD_Call
    \/ BernoulliJSD_EnforceThrows
    \/ BernoulliJSD_EnforcePasses
    \/ BernoulliJSD_Resize
    \/ ForwardAnyStep
    \/ ForwardAnyReturn
    \/ BernoulliJSDGradient_Call
    \/ BernoulliJSDGradient_Resize
    \/ GradientAnyStep
    \/ GradientAnyFault
    \/ GradientAnyReturn
SpecAnyOrder == InitAnyOrder /\ [][NextAnyOrder]_vars

\* The gradient maker on a BernoulliJSD operator of the net.
InitMaker ==
    NoTensors /\ InitForward /\ InitGradient /\ InitWiring /\ NoNum
NextMaker == GetGradientDefs
SpecMaker == InitMaker /\ [][NextMaker]_vars

\* The scalar helpers on every pair of inputs.
InitScalar ==
    NoTensors /\ InitForward /\ InitGradient /\ NoWiring /\ InitNum
NextScalar == Evaluate
SpecScalar == InitScalar /\ [][NextScalar]_vars

----------------------------------------------------------------------------
(* The properties. *)

\* C1: a forward call with len(T) # len(X) fails on the enforcement: it
\* never reaches the resize or the element loop, writes no element of L
\* and never returns success.
C1_MismatchAborts ==
    Len(T) # Len(X) =>
        /\ fpc \in {"idle", "enforce", "aborted"}
        /\ lWrites = Empty /\ fOrder = Empty
C1_Witness == fpc = "aborted" /\ Len(T) # Len(X) /\ Len(T) > 0 /\ Len(X) > 0

\* C2: the forward call has no partial-failure state: when it has aborted,
\* L has the size and the contents it had before the call and no element
\* was written; when it has returned, L has the size of X and every one of
\* its N elements has been written.
C2_NoPartialFailure ==
    /\ fpc = "aborted" =>
          Lsize = Len(L0) /\ Ldata = L0 /\ lWrites = Empty
    /\ fpc = "done" =>
          /\ Lsize = Len(X)
          /\ DOMAIN Ldata = 1..Len(X)
          /\ DOMAIN lWrites = 1..Len(X)
C2_Witness == fpc = "aborted" /\ L0 # Empty /\ Len(X) > 0

\* The loss of one element as the specification states it: binary entropy
\* that is exactly 0 below the threshold at either end, and
\* H((p+q)/2) - (H(p)+H(q))/2.
StatedEntropy(p) ==
    IF p < kLOG_THRESHOLD \/ FSub(One, p) < kLOG_THRESHOLD THEN 0
    ELSE ToFloat(- p * Log(ToDouble(p))
                 - FSub(One, p) * Log(ToDouble(FSub(One, p))),
                 FracBits + DblBits)
StatedJSD(p, q) ==
    ToFloat(2 * StatedEntropy(ToFloat(FAdd(p, q), 1))
              - FAdd(StatedEntropy(p), StatedEntropy(q)), 1)

\* C3: with len(T) = len(X) = N the forward call does not abort, and when
\* it has returned L has the shape of X and every L[i] is the stated loss
\* of X[i] and T[i], written exactly once.
C3_ForwardResult ==
    /\ Len(T) = Len(X) => fpc # "aborted"
    /\ fpc = "done" =>
          /\ Len(T) = Len(X) /\ Lsize = Len(X)
          /\ DOMAIN Ldata = 1..Len(X)
          /\ \A i \in 1..Len(X) :
                Ldata[i] = StatedJSD(X[i], T[i]) /\ lWrites[i] = 1
C3_Witness ==
    /\ fpc = "done" /\ Len(X) >= 2
    /\ \E i \in 1..Len(X) : Ldata[i] # 0

\* The gradient of one element as the specification states it: logit
\* clamps p to min(max(p, eps), 1 - eps) and returns -log(1/p' - 1).
StatedLogit(p) ==
    LET x == Min(Max(p, kLOG_THRESHOLD), FSub(One, kLOG_THRESHOLD))
        a == DRecip(x) - DOne
    IN  IF a = 0 THEN PInf ELSE Fin(ToFloat(-Log(a), DblBits))
StatedGradient(g, p, q) ==
    ExtHalfTimes(g, ExtFSub(StatedLogit(p),
                            StatedLogit(ToFloat(FAdd(p, q), 1))))

C5_OrderIndependent ==
    /\ fpc = "done" => Ldata = ForwardLoop(Len(X))
    /\ gpc = "done" =>
          /\ giData = GradientLoop(Len(X), goSeen, tSeen)
          /\ \A i \in 1..Len(X) :
                /\ i <= Len(T) => tSeen[i] = T[i]
                /\ i <= Len(go) => goSeen[i] = go[i]
C5_Witness ==
    /\ fpc = "done" /\ gpc = "done"
    /\ Len(T) = Len(X) /\ Len(go) = Len(X)
    /\ fOrder = <<2, 1>> /\ gOrder = <<2, 1>>
    /\ Ldata[1] # Ldata[2] /\ giData[1] # giData[2]

\* C6: JSD(p, q) = JSD(q, p) for every pair of inputs.
C6_Symmetric == npc = "out" => nJ = nJrev
C6_Witness ==
    /\ npc = "out" /\ np # nq /\ nJ # 0
    /\ np \in 0..One /\ nq \in 0..One

\* C7: for p and q in [0, 1] the computed JSD(p, q) is >= 0, and is 0
\* when p = q.
C7_NonNegative ==
    (npc = "out" /\ np \in 0..One /\ nq \in 0..One) =>
        /\ nJ >= 0
        /\ np = nq => nJ = 0

\* C8: in every call of entropy(p) and logit(p), for every p, each
\* argument passed to log is strictly positive and the result is finite.
C8_LogArgsPositive ==
    npc = "out" => (\A a \in nLogArgs : a > 0) /\ IsFinite(nLogit)

\* C9: for a BernoulliJSD node the gradient maker emits exactly one
\* operator, BernoulliJSDGradient, with the three inputs grad(output 0),
\* input 0, input 1 in that order and the single output grad(input 0),
\* as the schemas allow; input 1 is given no gradient.
C9_GradientWiring ==
    wpc = "made" =>
        /\ Len(gradDefs) = 1
        /\ gradDefs[1].type = "BernoulliJSDGradient"
        /\ gradDefs[1].input = <<g_output[1], def.input[1], def.input[2]>>
        /\ gradDefs[1].output = <<GradientName(def.input[1])>>
        /\ Len(gradDefs[1].input) = Schema.BernoulliJSDGradient.NumInputs
        /\ Len(gradDefs[1].output) = Schema.BernoulliJSDGradient.NumOutputs
        /\ Len(def.input) = Schema.BernoulliJSD.NumInputs
        /\ Len(def.output) = Schema.BernoulliJSD.NumOutputs
        /\ g_input[1] = GradientName(def.input[1])
        /\ g_input[2] = NoGradient
C9_Witness ==
    wpc = "made" /\ def.input[1] # def.input[2] /\ Len(gradDefs) = 1

\* The tensor a read names.
TensorOf(n) == CASE n = "X" -> X [] n = "T" -> T [] n = "go" -> go

\* C10: in every gradient call, whatever the lengths of grad_output, X and
\* T, every element read is at an index below its tensor's length and
\* every element written to grad_input is at an index below len(X).
C10_GradientInBounds ==
    /\ \A r \in gReads : r[2] <= Len(TensorOf(r[1]))
    /\ \A i \in DOMAIN giData : i <= Len(X)

====
